---- MODULE Spec2Model ----
(***************************************************************************)
(* A model of azure_data_pipeline/client.py: the AzureSQLClient object,    *)
(* its construction, its selector properties, the two management lookups,  *)
(* connect_to_database with its single retry, and __del__.                 *)
(*                                                                         *)
(* The external libraries (the identity provider, the SQL management       *)
(* client, pyodbc, time.sleep) are the environment: every call the client  *)
(* makes to them is appended to `calls`, and the outcome of each call is   *)
(* chosen nondeterministically.                                            *)
(***************************************************************************)
EXTENDS Integers, Sequences, FiniteSets, TLC

VARIABLES
    pc,                     \* position in the life of the client object
    connected,              \* self.connected
    authenticated,          \* self.authenticated
    server_username,        \* self.server_username
    server_password,        \* self.server_password
    credentials,            \* self._credentials
    sql_management_client,  \* self._sql_management_client
    server_name,            \* self._server_name
    resource_group,         \* self._resource_group
    database_name,          \* self._database_name
    connection_object,      \* self.connection_object
    cursor_object,          \* self.cursor_object
    built,                  \* external objects the constructors returned so far
    opened,                 \* driver handles returned to this client so far
    closed,                 \* driver handles whose close() returned
    nextId,                 \* identity of the next handle the driver returns
    nCalls,                 \* connect_to_database calls made so far
    last,                   \* the most recent operation: its name, arguments, outcome
    calls                   \* the external calls the most recent operation made

vars == <<pc, connected, authenticated, server_username, server_password,
          credentials, sql_management_client, server_name, resource_group,
          database_name, connection_object, cursor_object, built, opened,
          closed, nextId, nCalls, last, calls>>

attrs == <<connected, authenticated, server_username, server_password,
           credentials, sql_management_client>>

selectors == <<server_name, resource_group, database_name>>

handles == <<connection_object, cursor_object>>

driver == <<opened, closed, nextId, nCalls>>

----------------------------------------------------------------------------
(* Bounds of the model. *)

MaxCalls == 2

----------------------------------------------------------------------------
(* Python values. *)

\* None
None == [tag |-> "None"]

\* An attribute that has not been assigned yet: reading it raises AttributeError.
Absent == [tag |-> "absent"]

\* A str, as the sequence of its pieces.
Str(s) == [tag |-> "str", val |-> s]

\* An int.
Int_(n) == [tag |-> "int", n |-> n]

\* A pyodbc.Connection.
Connection(id) == [tag |-> "Connection", id |-> id]

\* A pyodbc.Cursor opened from connection cnxn.
Cursor(id, cnxn) == [tag |-> "Cursor", id |-> id, cnxn |-> cnxn]

\* The object ServicePrincipalCredentials(...) returns.
Credential == [tag |-> "ServicePrincipalCredentials"]

\* The object SqlManagementClient(credentials=...) returns.
ManagementClient(cred) == [tag |-> "SqlManagementClient", credentials |-> cred]

\* Python truth value of an object: None and '' are false, any handle is true.
Truthy(v) ==
    CASE v.tag = "None" -> FALSE
      [] v.tag = "absent" -> FALSE
      [] v.tag = "str" -> v.val # <<>>
      [] OTHER -> TRUE

\* One external call: the function, its argument, how it ended, what it returned.
Call(fn, arg, out, ret) == [fn |-> fn, arg |-> arg, out |-> out, ret |-> ret]

----------------------------------------------------------------------------
(* Strings: a str is a sequence of pieces; " " is one space, LF one newline. *)

LF == "LF"

SP == " "

\* n spaces.
Spaces(n) == [i \in 1..n |-> SP]

\* Indentation of the option lines of the connection-string literal.
OptionIndent == 12

\* Indentation of the line that closes the connection-string literal.
ClosingIndent == 8

\* The pause before the retry, in seconds.
RetryDelay == 2

\* The driver used when the caller passes none.
DefaultDriver == <<"{ODBC Driver 17 for SQL Server}">>

\* The suffix appended to the server name.
ServerSuffix == <<".database.windows.net,1433">>

\* One line of the literal: indentation, key, value, ';', newline.
OptionLine(key, value) == Spaces(OptionIndent) \o <<key, value, ";", LF>>

\* The triple-quoted literal, replacement fields still in place.
ConnectionTemplate ==
    <<LF>>
    \o OptionLine("Driver=", "{driver}")
    \o OptionLine("Server=", "{server}")
    \o OptionLine("Database=", "{database}")
    \o OptionLine("Uid=", "{username}")
    \o OptionLine("Pwd=", "{password}")
    \o OptionLine("Encrypt=", "yes")
    \o OptionLine("TrustServerCertificate=", "no")
    \o OptionLine("Connection Timeout=", "30")
    \o Spaces(ClosingIndent)

\* str.format: every replacement field is replaced by its value, other text
\* kept (the text is halved at each step to keep the evaluation shallow).
RECURSIVE Format(_, _)
Format(text, fields) ==
    IF Len(text) = 0 THEN <<>>
    ELSE IF Len(text) = 1
    THEN (IF text[1] \in DOMAIN fields THEN fields[text[1]] ELSE text)
    ELSE LET half == Len(text) \div 2
         IN  Format(SubSeq(text, 1, half), fields)
             \o Format(SubSeq(text, half + 1, Len(text)), fields)

\* The lines of a text (split at LF; the LF itself dropped).
RECURSIVE SplitLines(_)
SplitLines(text) ==
    IF \A i \in 1..Len(text) : text[i] # LF THEN <<text>>
    ELSE LET at == {i \in 1..Len(text) : text[i] = LF}
             k == CHOOSE i \in at : \A j \in at : i <= j
         IN  <<SubSeq(text, 1, k - 1)>> \o SplitLines(SubSeq(text, k + 1, Len(text)))

\* The lines joined again with LF.
RECURSIVE JoinLines(_)
JoinLines(lines) ==
    IF Len(lines) = 0 THEN <<>>
    ELSE IF Len(lines) = 1 THEN lines[1]
    ELSE lines[1] \o <<LF>> \o JoinLines(Tail(lines))

\* A line of spaces only (or an empty line).
IsBlank(line) == \A i \in 1..Len(line) : line[i] = SP

\* Number of spaces a line starts with.
LeadingSpaces(line) ==
    IF IsBlank(line) THEN Len(line)
    ELSE LET at == {i \in 1..Len(line) : line[i] # SP}
         IN  (CHOOSE i \in at : \A j \in at : i <= j) - 1

\* textwrap.dedent: blank lines become empty, the other lines lose the
\* leading whitespace they all share.
Dedent(text) ==
    LET lines == SplitLines(text)
        full == {i \in 1..Len(lines) : ~IsBlank(lines[i])}
        margin == IF full = {} THEN 0
                  ELSE CHOOSE m \in {LeadingSpaces(lines[i]) : i \in full} :
                           \A i \in full : m <= LeadingSpaces(lines[i])
    IN  JoinLines([i \in 1..Len(lines) |->
                      IF i \in full
                      THEN SubSeq(lines[i], margin + 1, Len(lines[i]))
                      ELSE <<>>])

\* `if driver: driver = driver else: driver = '{ODBC Driver 17 for SQL Server}'`
ChooseDriver(drv) == IF Truthy(drv) THEN drv.val ELSE DefaultDriver

\* '{server}.database.windows.net,1433'.format(server=server)
ServerString(server) == server \o ServerSuffix

\* FormatFields with username and password handed to each other's field.
FormatFieldsSwapped(server, database, drv, username, password) ==
    ("{driver}" :> ChooseDriver(drv)) @@ ("{server}" :> ServerString(server))
    @@ ("{database}" :> database) @@ ("{username}" :> password)
    @@ ("{password}" :> username)

\* The replacement fields handed to format.
FormatFields(server, database, drv, username, password) ==
    ("{driver}" :> ChooseDriver(drv)) @@ ("{server}" :> ServerString(server))
    @@ ("{database}" :> database) @@ ("{username}" :> username)
    @@ ("{password}" :> password)

\* The connection string connect_to_database passes to pyodbc.connect.
ConnectionString(server, database, drv, username, password) ==
    Dedent(Format(ConnectionTemplate,
                  FormatFields(server, database, drv, username, password)))

----------------------------------------------------------------------------
(* The values the operations are called with, and the outcomes of the      *)
(* external calls.                                                         *)

Usernames == {<<"sqladmin">>}

Passwords == {<<"pw1">>, <<"pw2">>}

ResourceGroupValues == {None, Str(<<>>), Str(<<"rg-set">>)}

ServerNameValues == {None, Str(<<>>), Str(<<"server-set">>)}

DatabaseNameValues == {None, Str(<<>>), Str(<<"db-set">>)}

ResourceGroupArgs == {None, Str(<<"rg-arg">>)}

ServerNameArgs == {None, Str(<<"server-arg">>)}

DatabaseNameArgs == {None, Str(<<"db-arg">>)}

Servers == {<<"myserver">>}

Databases == {<<"mydb">>}

Drivers == {None, Str(<<>>), Str(<<"{SQL Server}">>)}

\* pyodbc.connect returns, raises the error the retry is for, or raises another.
ConnectOutcomes == {"ok", "OperationalError", "InterfaceError"}

CursorOutcomes == {"ok", "ProgrammingError"}

\* What the driver answers during one connect_to_database: to the first
\* pyodbc.connect, to the second, to cursor(); "-" for a call that is not made
\* when the calls before it end that way.
ConnectScripts ==
    {<<"ok", "-", c>> : c \in CursorOutcomes}
    \cup {<<"OperationalError", "ok", c>> : c \in CursorOutcomes}
    \cup {<<"OperationalError", o, "-">> : o \in ConnectOutcomes \ {"ok"}}
    \cup {<<o, "-", "-">> : o \in ConnectOutcomes \ {"ok", "OperationalError"}}

ReleaseOutcomes == {"ok", "Error"}

ConstructorOutcomes == {"ok", "AuthenticationError"}

LookupOutcomes == {"ok", "CloudError"}

\* What an operation leaves in `last`.
Did(op, args, raised) == [op |-> op, args |-> args, raised |-> raised]

----------------------------------------------------------------------------
(* __init__ up to the first external call (lines 37-49): the flags are     *)
(* false, the configuration is stored, _credentials is None; the other     *)
(* attributes do not exist yet.                                            *)

Init ==
    /\ pc = "create_credential"
    /\ connected = FALSE
    /\ authenticated = FALSE
    /\ server_username \in Usernames
    /\ server_password \in Passwords
    /\ credentials = None
    /\ sql_management_client = Absent
    /\ server_name = Absent
    /\ resource_group = Absent
    /\ database_name = Absent
    /\ connection_object = Absent
    /\ cursor_object = Absent
    /\ built = {}
    /\ opened = {}
    /\ closed = {}
    /\ nextId = 1
    /\ nCalls = 0
    /\ last = Did("__init__", None, "")
    /\ calls = <<>>

\* create_credential going on to the management client after a rejection.
create_credential_unchecked(outcome) ==
    /\ pc = "create_credential"
    /\ calls' = <<Call("ServicePrincipalCredentials", None, outcome,
                       IF outcome = "ok" THEN Credential ELSE None)>>
    /\ IF outcome = "ok"
       THEN /\ credentials' = Credential
            /\ connected' = TRUE
            /\ built' = built \cup {Credential}
       ELSE UNCHANGED <<credentials, connected, built>>
    /\ pc' = "create_sql_management_client"
    /\ last' = Did("_create_credential", None, "")
    /\ UNCHANGED <<authenticated, server_username, server_password,
                   sql_management_client, selectors, handles, driver>>

\* self._create_credential(): the constructor of the credential object
\* returns, or raises and ends __init__.
create_credential(outcome) ==
    /\ pc = "create_credential"
    /\ calls' = <<Call("ServicePrincipalCredentials", None, outcome,
                       IF outcome = "ok" THEN Credential ELSE None)>>
    /\ IF outcome = "ok"
       THEN /\ credentials' = Credential
            /\ connected' = TRUE
            /\ built' = built \cup {Credential}
            /\ pc' = "create_sql_management_client"
            /\ last' = Did("_create_credential", None, "")
       ELSE /\ pc' = "construction_failed"
            /\ last' = Did("__init__", None, outcome)
            /\ UNCHANGED <<credentials, connected, built>>
    /\ UNCHANGED <<authenticated, server_username, server_password,
                   sql_management_client, selectors, handles, driver>>

\* self._sql_management_client = None; self._create_sql_management_client()
create_sql_management_client(outcome) ==
    /\ pc = "create_sql_management_client"
    /\ calls' = <<Call("SqlManagementClient", credentials, outcome,
                       IF outcome = "ok" THEN ManagementClient(credentials) ELSE None)>>
    /\ IF outcome = "ok"
       THEN /\ sql_management_client' = ManagementClient(credentials)
            /\ authenticated' = TRUE
            /\ built' = built \cup {ManagementClient(credentials)}
            /\ pc' = "init_selectors"
            /\ last' = Did("_create_sql_management_client", None, "")
       ELSE /\ sql_management_client' = None
            /\ pc' = "construction_failed"
            /\ last' = Did("__init__", None, outcome)
            /\ UNCHANGED <<authenticated, built>>
    /\ UNCHANGED <<connected, server_username, server_password, credentials,
                   selectors, handles, driver>>

\* The rest of __init__: the selectors and the two driver handles start as None.
init_selectors ==
    /\ pc = "init_selectors"
    /\ server_name' = None
    /\ resource_group' = None
    /\ database_name' = None
    /\ connection_object' = None
    /\ cursor_object' = None
    /\ pc' = "ready"
    /\ last' = Did("__init__", None, "")
    /\ calls' = <<>>
    /\ UNCHANGED <<attrs, built, driver>>

----------------------------------------------------------------------------
(* The selector properties. *)

set_server_name(value) ==
    /\ pc = "ready"
    /\ server_name' = value
    /\ last' = Did("server_name", [value |-> value], "")
    /\ calls' = <<>>
    /\ UNCHANGED <<pc, attrs, resource_group, database_name, handles, built, driver>>

set_resource_group_name(value) ==
    /\ pc = "ready"
    /\ resource_group' = value
    /\ last' = Did("resource_group_name", [value |-> value], "")
    /\ calls' = <<>>
    /\ UNCHANGED <<pc, attrs, server_name, database_name, handles, built, driver>>

set_database_name(value) ==
    /\ pc = "ready"
    /\ database_name' = value
    /\ last' = Did("database_name", [value |-> value], "")
    /\ calls' = <<>>
    /\ UNCHANGED <<pc, attrs, server_name, resource_group, handles, built, driver>>

----------------------------------------------------------------------------
(* The lookups. *)

\* ResolveSelector with the precedence turned around: a given argument wins.
ResolveArgumentFirst(stored, arg) == IF Truthy(arg) THEN arg ELSE stored

\* `if self._x: x = self.x else: x = x`
ResolveSelector(stored, arg) == IF Truthy(stored) THEN stored ELSE arg

\* The keyword arguments of servers.get.
ServerQuery(rg, sn) ==
    [tag |-> "kwargs",
     resource_group_name |-> ResolveSelector(resource_group, rg),
     server_name |-> ResolveSelector(server_name, sn)]

\* The keyword arguments of databases.get.
DatabaseQuery(rg, sn, db) ==
    [tag |-> "kwargs",
     resource_group_name |-> ResolveSelector(resource_group, rg),
     server_name |-> ResolveSelector(server_name, sn),
     database_name |-> ResolveSelector(database_name, db)]

get_server(rg, sn, outcome) ==
    /\ pc = "ready"
    /\ calls' = <<Call("servers.get", ServerQuery(rg, sn), outcome,
                       IF outcome = "ok" THEN [tag |-> "Server"] ELSE None)>>
    /\ last' = Did("get_server", [resource_group |-> rg, server_name |-> sn],
                   IF outcome = "ok" THEN "" ELSE outcome)
    /\ UNCHANGED <<pc, attrs, selectors, handles, built, driver>>

get_database(rg, sn, db, outcome) ==
    /\ pc = "ready"
    /\ calls' = <<Call("databases.get", DatabaseQuery(rg, sn, db), outcome,
                       IF outcome = "ok" THEN [tag |-> "Database"] ELSE None)>>
    /\ last' = Did("get_database",
                   [resource_group |-> rg, server_name |-> sn, database_name |-> db],
                   IF outcome = "ok" THEN "" ELSE outcome)
    /\ UNCHANGED <<pc, attrs, selectors, handles, built, driver>>

----------------------------------------------------------------------------
(* connect_to_database. *)

\* The connection string of every call the model makes, computed once.
ConnectionStringOf ==
    [server \in Servers, database \in Databases, drv \in Drivers,
     username \in Usernames, password \in Passwords |->
        ConnectionString(server, database, drv, username, password)]

\* ConnectAttempts retrying at once, without the pause.
ConnectAttemptsNoPause(cs, first, second, id) ==
    IF first = "ok"
    THEN <<Call("pyodbc.connect", Str(cs), "ok", Connection(id))>>
    ELSE IF first = "OperationalError"
    THEN <<Call("pyodbc.connect", Str(cs), first, None),
           Call("pyodbc.connect", Str(cs), second,
                IF second = "ok" THEN Connection(id) ELSE None)>>
    ELSE <<Call("pyodbc.connect", Str(cs), first, None)>>

\* ConnectAttempts catching the failure of the retry too and trying a third time.
ConnectAttemptsThird(cs, first, second, id) ==
    IF first = "ok"
    THEN <<Call("pyodbc.connect", Str(cs), "ok", Connection(id))>>
    ELSE IF first = "OperationalError"
    THEN <<Call("pyodbc.connect", Str(cs), first, None),
           Call("time.sleep", Int_(RetryDelay), "ok", None),
           Call("pyodbc.connect", Str(cs), second,
                IF second = "ok" THEN Connection(id) ELSE None)>>
         \o (IF second = "OperationalError"
             THEN <<Call("time.sleep", Int_(RetryDelay), "ok", None),
                    Call("pyodbc.connect", Str(cs), "ok", Connection(id))>>
             ELSE <<>>)
    ELSE <<Call("pyodbc.connect", Str(cs), first, None)>>

\* The try/except around pyodbc.connect: the calls made when the first
\* attempt ends as `first` and the retry, if there is one, as `second`.
ConnectAttempts(cs, first, second, id) ==
    IF first = "ok"
    THEN <<Call("pyodbc.connect", Str(cs), "ok", Connection(id))>>
    ELSE IF first = "OperationalError"
    THEN <<Call("pyodbc.connect", Str(cs), first, None),
           Call("time.sleep", Int_(RetryDelay), "ok", None),
           Call("pyodbc.connect", Str(cs), second,
                IF second = "ok" THEN Connection(id) ELSE None)>>
    ELSE <<Call("pyodbc.connect", Str(cs), first, None)>>

\* self.connection_object.cursor()
CursorCall(cnxn, outcome, id) ==
    Call("Connection.cursor", cnxn, outcome,
         IF outcome = "ok" THEN Cursor(id, cnxn) ELSE None)

\* StoredCursor clearing the cursor when cursor() raises.
StoredCursorOrNone(old, call) == IF call.out = "ok" THEN call.ret ELSE None

\* self.cursor_object after `self.cursor_object = self.connection_object.cursor()`:
\* the assignment does not happen when cursor() raises.
StoredCursor(old, call) == IF call.out = "ok" THEN call.ret ELSE old

connect_to_database(server, database, drv, first, second, cur) ==
    /\ pc = "ready"
    /\ nCalls < MaxCalls
    /\ nCalls' = nCalls + 1
    /\ LET cs == ConnectionStringOf[server, database, drv,
                                    server_username, server_password]
           attempts == ConnectAttempts(cs, first, second, nextId)
           final == attempts[Len(attempts)]
           cursorCall == CursorCall(final.ret, cur, nextId + 1)
           args == [server |-> server, database |-> database, driver |-> drv,
                    first |-> first, second |-> second, cursor |-> cur]
       IN  IF final.out = "ok"
           THEN \* cnxn is bound: store it, then _create_cursor()
                /\ connection_object' = final.ret
                /\ calls' = attempts \o <<cursorCall>>
                /\ cursor_object' = StoredCursor(cursor_object, cursorCall)
                /\ IF cursorCall.out = "ok"
                   THEN /\ opened' = opened \cup {final.ret, cursorCall.ret}
                        /\ nextId' = nextId + 2
                        /\ last' = Did("connect_to_database", args, "")
                   ELSE /\ opened' = opened \cup {final.ret}
                        /\ nextId' = nextId + 1
                        /\ last' = Did("connect_to_database", args, cursorCall.out)
           ELSE \* the failure of the last attempt leaves the method
                /\ calls' = attempts
                /\ last' = Did("connect_to_database", args, final.out)
                /\ UNCHANGED <<handles, opened, nextId>>
    /\ UNCHANGED <<pc, attrs, selectors, built, closed>>

----------------------------------------------------------------------------
(* __del__. *)

\* ReleaseCalls closing the connection before the cursor.
ReleaseCallsConnectionFirst(cur, cnxn, commitOut, curCloseOut, cnxnCloseOut) ==
    LET commit == Call("Cursor.commit", cur, commitOut, None)
        closeCursor == Call("Cursor.close", cur, curCloseOut, None)
        closeCnxn == Call("Connection.close", cnxn, cnxnCloseOut, None)
    IN  IF cur = None THEN <<>>
        ELSE IF commitOut # "ok" THEN <<commit>>
        ELSE IF cnxn = None THEN <<commit>>
        ELSE IF cnxnCloseOut # "ok" THEN <<commit, closeCnxn>>
        ELSE <<commit, closeCnxn, closeCursor>>

\* The three statements of the body of the `if`, up to the first that raises.
ReleaseCalls(cur, cnxn, commitOut, curCloseOut, cnxnCloseOut) ==
    LET commit == Call("Cursor.commit", cur, commitOut, None)
        closeCursor == Call("Cursor.close", cur, curCloseOut, None)
        closeCnxn == Call("Connection.close", cnxn, cnxnCloseOut, None)
    IN  IF cur = None THEN <<>>
        ELSE IF commitOut # "ok" THEN <<commit>>
        ELSE IF curCloseOut # "ok" THEN <<commit, closeCursor>>
        ELSE IF cnxn = None THEN <<commit, closeCursor>>
        ELSE <<commit, closeCursor, closeCnxn>>

\* The exception that leaves the body of the `if` ("" when none does).
ReleaseRaised(cur, cnxn, commitOut, curCloseOut, cnxnCloseOut) ==
    IF cur = None THEN "AttributeError"
    ELSE IF commitOut # "ok" THEN commitOut
    ELSE IF curCloseOut # "ok" THEN curCloseOut
    ELSE IF cnxn = None THEN "AttributeError"
    ELSE IF cnxnCloseOut # "ok" THEN cnxnCloseOut
    ELSE ""

\* The handles a sequence of calls closed.
ClosedBy(cs) ==
    {cs[i].arg : i \in {j \in 1..Len(cs) :
                            /\ cs[j].fn \in {"Cursor.close", "Connection.close"}
                            /\ cs[j].out = "ok"}}

del(commitOut, curCloseOut, cnxnCloseOut) ==
    /\ pc \in {"ready", "construction_failed"}
    /\ pc' = "disposed"
    /\ IF cursor_object = Absent
       THEN \* reading self.cursor_object raises
            /\ calls' = <<>>
            /\ last' = Did("__del__", None, "AttributeError")
            /\ closed' = closed
       ELSE IF Truthy(cursor_object) \/ Truthy(connection_object)
       THEN LET released == ReleaseCalls(cursor_object, connection_object,
                                         commitOut, curCloseOut, cnxnCloseOut)
            IN  /\ calls' = released
                /\ last' = Did("__del__", None,
                               ReleaseRaised(cursor_object, connection_object,
                                             commitOut, curCloseOut, cnxnCloseOut))
                /\ closed' = closed \cup ClosedBy(released)
       ELSE /\ calls' = <<>>
            /\ last' = Did("__del__", None, "")
            /\ closed' = closed
    /\ UNCHANGED <<attrs, selectors, handles, built, opened, nextId, nCalls>>

----------------------------------------------------------------------------

Next ==
    \/ \E o \in ConstructorOutcomes : create_credential(o)
    \/ \E o \in ConstructorOutcomes : create_sql_management_client(o)
    \/ init_selectors
    \/ \E v \in ServerNameValues : set_server_name(v)
    \/ \E v \in ResourceGroupValues : set_resource_group_name(v)
    \/ \E v \in DatabaseNameValues : set_database_name(v)
    \/ \E rg \in ResourceGroupArgs, sn \in ServerNameArgs, o \in LookupOutcomes :
           get_server(rg, sn, o)
    \/ \E rg \in ResourceGroupArgs, sn \in ServerNameArgs,
          db \in DatabaseNameArgs, o \in LookupOutcomes :
           get_database(rg, sn, db, o)
    \/ \E s \in Servers, d \in Databases, drv \in Drivers, script \in ConnectScripts :
           connect_to_database(s, d, drv, script[1], script[2], script[3])
    \/ \E o1 \in ReleaseOutcomes, o2 \in ReleaseOutcomes, o3 \in ReleaseOutcomes :
           del(o1, o2, o3)

Spec == Init /\ [][Next]_vars

----------------------------------------------------------------------------
(* Properties. *)

\* The positions in `calls` of the calls to fn.
CallsTo(fn) == {i \in 1..Len(calls) : calls[i].fn = fn}

\* The state is the one a connect_to_database call has just left.
AfterConnect == last.op = "connect_to_database"

\* The state is the one __del__ has just left.
AfterDel == pc = "disposed"

\* C1: a connect_to_database call whose first pyodbc.connect raises
\* OperationalError and whose second returns makes exactly two connect
\* attempts, pauses exactly once, for 2 seconds, between them, and, when it
\* returns, has stored the connection of the second attempt and a cursor
\* opened from that connection.
C1_RetryOnceThenStore ==
    (AfterConnect /\ last.args.first = "OperationalError" /\ last.args.second = "ok")
    => /\ Cardinality(CallsTo("pyodbc.connect")) = 2
       /\ Cardinality(CallsTo("time.sleep")) = 1
       /\ Len(calls) >= 3
       /\ calls[1].fn = "pyodbc.connect"
       /\ calls[2].fn = "time.sleep" /\ calls[2].arg = Int_(2)
       /\ calls[3].fn = "pyodbc.connect"
       /\ last.raised = ""
          => /\ connection_object = calls[3].ret
             /\ connection_object.tag = "Connection"
             /\ Len(calls) = 4
             /\ calls[4].fn = "Connection.cursor"
             /\ calls[4].arg = connection_object
             /\ cursor_object = calls[4].ret
             /\ cursor_object.tag = "Cursor"
             /\ cursor_object.cnxn = connection_object

\* A call went through the retry and returned.
C1_Witness ==
    /\ AfterConnect
    /\ last.args.first = "OperationalError"
    /\ last.args.second = "ok"
    /\ last.raised = ""

\* C2: when the first attempt and the retry both fail, the failure of the
\* retry leaves connect_to_database, there is no third attempt, and the call
\* opens no cursor.
C2_SecondFailurePropagates ==
    (AfterConnect /\ last.args.first # "ok" /\ last.args.second \notin {"ok", "-"})
    => /\ last.raised = last.args.second
       /\ Cardinality(CallsTo("pyodbc.connect")) = 2
       /\ calls[Len(calls)].fn = "pyodbc.connect"
       /\ calls[Len(calls)].out = last.args.second
       /\ CallsTo("Connection.cursor") = {}

\* A call failed twice.
C2_Witness ==
    /\ AfterConnect
    /\ last.args.first = "OperationalError"
    /\ last.args.second = "OperationalError"
    /\ last.raised = "OperationalError"

\* C3: __del__ on a client that holds a cursor and a connection calls commit
\* on the cursor, close on the cursor, close on the connection, each at most
\* once and in that order; a step runs only if the steps before it returned;
\* all three run when none fails; a failing step's error leaves __del__.
C3_ReleaseOrder ==
    (AfterDel /\ Truthy(cursor_object) /\ Truthy(connection_object))
    => LET want == <<[fn |-> "Cursor.commit", arg |-> cursor_object],
                     [fn |-> "Cursor.close", arg |-> cursor_object],
                     [fn |-> "Connection.close", arg |-> connection_object]>>
           n == Len(calls)
       IN  /\ n \in 1..3
           /\ \A i \in 1..n : calls[i].fn = want[i].fn /\ calls[i].arg = want[i].arg
           /\ \A i \in 1..(n - 1) : calls[i].out = "ok"
           /\ last.raised = (IF calls[n].out = "ok" THEN "" ELSE calls[n].out)
           /\ calls[n].out = "ok" => n = 3

\* A client with both handles was disposed of and the second step failed.
C3_Witness ==
    /\ AfterDel
    /\ Truthy(cursor_object)
    /\ Truthy(connection_object)
    /\ Len(calls) = 2
    /\ last.raised = "Error"

\* The calls of a complete release of cursor cur and connection cnxn.
FullRelease(cur, cnxn) ==
    <<[fn |-> "Cursor.commit", arg |-> cur],
      [fn |-> "Cursor.close", arg |-> cur],
      [fn |-> "Connection.close", arg |-> cnxn]>>

\* C4: whenever the client holds a cursor handle or a connection handle,
\* __del__ commits through the cursor, closes the cursor, then closes the
\* connection, in that order (stopping early only where the driver fails).
C4_ReleaseWhenAnyHandle ==
    (AfterDel /\ (Truthy(cursor_object) \/ Truthy(connection_object)))
    => LET want == FullRelease(cursor_object, connection_object)
           n == Len(calls)
       IN  /\ n \in 1..3
           /\ \A i \in 1..n : calls[i].fn = want[i].fn /\ calls[i].arg = want[i].arg
           /\ calls[n].out = "ok" => n = 3

\* C5: after a __del__ that raised nothing, every handle the driver gave the
\* client has been closed.
C5_EveryHandleClosed ==
    (AfterDel /\ last.raised = "") => opened \subseteq closed

\* What a lookup passed for one selector, under the rule "a stored selector
\* that is not None wins, else the argument".
PassedIfSet(stored, arg) == IF stored # None THEN stored ELSE arg

\* What a lookup passed for one selector, under the rule "a stored selector
\* that is neither None nor empty wins, else the argument".
PassedIfNonEmpty(stored, arg) ==
    IF stored # None /\ stored # Str(<<>>) THEN stored ELSE arg

\* The state is the one a lookup has just left.
AfterLookup == last.op \in {"get_server", "get_database"}

\* C6 as stated: each value a lookup passes to the management client is the
\* stored selector if that selector is set (not None), and the caller's
\* argument only if it is not set.
C6_SetSelectorWins ==
    AfterLookup
    => /\ calls[1].arg.resource_group_name
              = PassedIfSet(resource_group, last.args.resource_group)
       /\ calls[1].arg.server_name = PassedIfSet(server_name, last.args.server_name)
       /\ last.op = "get_database"
          => calls[1].arg.database_name
                 = PassedIfSet(database_name, last.args.database_name)

\* The values the lookup that has just run passed, under the amended rule.
C6_Resolved ==
    /\ Len(calls) = 1
    /\ calls[1].fn = (IF last.op = "get_server" THEN "servers.get" ELSE "databases.get")
    /\ calls[1].arg.resource_group_name
           = PassedIfNonEmpty(resource_group, last.args.resource_group)
    /\ calls[1].arg.server_name = PassedIfNonEmpty(server_name, last.args.server_name)
    /\ last.op = "get_database"
       => calls[1].arg.database_name
              = PassedIfNonEmpty(database_name, last.args.database_name)

\* C6, amended: each value a lookup passes is the stored selector if that
\* selector is set to a non-empty string, whatever the argument, and the
\* caller's argument if the selector is None or the empty string; the lookup
\* leaves the stored selectors unchanged.
C6_NonEmptySelectorWins ==
    [][AfterLookup' => (C6_Resolved' /\ UNCHANGED selectors)]_vars

\* A lookup ran with one selector set and a different argument given for it,
\* and another selector unset with an argument given for it.
C6_Witness ==
    /\ last.op = "get_database"
    /\ server_name = Str(<<"server-set">>)
    /\ last.args.server_name = Str(<<"server-arg">>)
    /\ resource_group = None
    /\ last.args.resource_group = Str(<<"rg-arg">>)
    /\ calls[1].arg.server_name = Str(<<"server-set">>)
    /\ calls[1].arg.resource_group_name = Str(<<"rg-arg">>)

\* The management client object is among the objects built.
ManagementClientBuilt == \E b \in built : b.tag = "SqlManagementClient"

\* C7: when both external constructors accept, construction does not fail and
\* ends with connected and authenticated true; when the identity provider
\* rejects the credentials, the failure leaves __init__, the management
\* client is never built and authenticated stays false.
C7_ConstructionOutcome ==
    /\ (Credential \in built /\ ManagementClientBuilt)
       => connected /\ authenticated /\ pc # "construction_failed"
    /\ pc \in {"ready", "disposed"} /\ Truthy(sql_management_client)
       => connected /\ authenticated
    /\ (Credential \notin built /\ pc # "create_credential")
       => /\ pc \in {"construction_failed", "disposed"}
          /\ ~authenticated
          /\ ~ManagementClientBuilt
          /\ ~Truthy(sql_management_client)
          /\ pc = "construction_failed"
             => last.op = "__init__" /\ last.raised = "AuthenticationError"

\* The identity provider rejected the credentials.
C7_Witness ==
    /\ pc = "construction_failed"
    /\ Credential \notin built
    /\ last.raised = "AuthenticationError"

\* The handle-ordering part of C8.
C8_Order ==
    /\ Truthy(sql_management_client) => Truthy(credentials)
    /\ authenticated => connected
    /\ Truthy(cursor_object) => Truthy(connection_object)

\* The part of C8 about one step: what is set stays set.
C8_Kept ==
    /\ Truthy(credentials) => Truthy(credentials')
    /\ Truthy(sql_management_client) => Truthy(sql_management_client')
    /\ Truthy(connection_object) => Truthy(connection_object')
    /\ Truthy(cursor_object) => Truthy(cursor_object')
    /\ connected => connected'
    /\ authenticated => authenticated'

\* C8: in every state a stored management client implies a stored credential,
\* authenticated implies connected, a stored cursor implies a stored
\* connection; and no step unsets a handle or a flag that is set.
C8_HandleOrdering == []C8_Order /\ [][C8_Kept]_vars

\* A client that already held a cursor has been through a second
\* connect_to_database in which cursor() raised.
C8_Witness ==
    /\ AfterConnect
    /\ nCalls = 2
    /\ last.raised = "ProgrammingError"
    /\ Truthy(cursor_object)
    /\ cursor_object.cnxn # connection_object

\* One option of a connection string as the driver reads it: key, value, ';'
\* and the end of the line.
Option(key, value) == <<key>> \o value \o <<";", LF>>

\* The connection string for the given values, written out piece by piece.
ExpectedString(server, database, driverText, username, password) ==
    <<LF>>
    \o Option("Driver=", driverText)
    \o Option("Server=", server \o <<".database.windows.net,1433">>)
    \o Option("Database=", database)
    \o Option("Uid=", username)
    \o Option("Pwd=", password)
    \o Option("Encrypt=", <<"yes">>)
    \o Option("TrustServerCertificate=", <<"no">>)
    \o Option("Connection Timeout=", <<"30">>)

\* Every pyodbc.connect of the call that has just run got the string with
\* Driver equal to driverText.
ConnectedWith(driverText) ==
    \A i \in CallsTo("pyodbc.connect") :
        calls[i].arg = Str(ExpectedString(last.args.server, last.args.database,
                                          driverText, server_username,
                                          server_password))

\* C9 as stated: the string passed to pyodbc.connect, retry included, has the
\* listed options, with Driver equal to the driver argument whenever one is
\* passed (anything but None) and to the default literal when none is.
C9_DriverWhenSupplied ==
    AfterConnect
    => ConnectedWith(IF last.args.driver # None
                     THEN last.args.driver.val
                     ELSE <<"{ODBC Driver 17 for SQL Server}">>)

\* C9, amended: the same, with Driver equal to the driver argument when a
\* non-empty one is passed, and to the default literal when the argument is
\* None or the empty string.
C9_ConnectionString ==
    AfterConnect
    => ConnectedWith(IF last.args.driver # None /\ last.args.driver # Str(<<>>)
                     THEN last.args.driver.val
                     ELSE <<"{ODBC Driver 17 for SQL Server}">>)

\* A call with a driver of its own went through the retry.
C9_Witness ==
    /\ AfterConnect
    /\ last.args.driver = Str(<<"{SQL Server}">>)
    /\ Cardinality(CallsTo("pyodbc.connect")) = 2

\* C10: __del__ on a client that holds neither a connection nor a cursor
\* makes no call and raises nothing, whether connect_to_database was never
\* called, always failed, or construction itself failed.
C10_DelWithoutHandles ==
    (AfterDel /\ ~Truthy(cursor_object) /\ ~Truthy(connection_object))
    => calls = <<>> /\ last.raised = ""

====
